---- MODULE Spec2Model ----
(***************************************************************************)
(* Model of telegram-bot/bot_functions/main.py: the Bot client, the        *)
(* UpdateChat wrapper built from a webhook payload (with get_command) and  *)
(* the SentChat handle built from the answer to sendMessage.               *)
(*                                                                         *)
(* Python values are modelled as follows.                                  *)
(*   - an optional value (a dict key that may be missing, or a value that  *)
(*     may be None) is a sequence of length 0 or 1: <<>> or <<v>>;         *)
(*   - a str is a sequence of one-character strings;                       *)
(*   - a dict with a known key set is a record of optional fields;         *)
(*   - the top-level dict of a payload is the ordered sequence of its      *)
(*     items, since the code indexes tuple(d.items()) by position;         *)
(*   - a raised exception is the name of its class in the field exc.       *)
(***************************************************************************)
EXTENDS Integers, Sequences, FiniteSets, TLC

VARIABLES bot, update, uc, sent, ret, posts, lastPost, op

vars == <<bot, update, uc, sent, ret, posts, lastPost, op>>

(***************************************************************************)
(* Bounds of the model.                                                    *)
(***************************************************************************)
MaxLen == 5
MaxOffset == 2
MaxEntLen == 4
MaxPosts == 3

None == <<>>
Some(v) == <<v>>
Get(f, default) == IF f = None THEN default ELSE f[1]

Min(a, b) == IF a < b THEN a ELSE b
Max(a, b) == IF a > b THEN a ELSE b

(***************************************************************************)
(* str: slicing s[a:b] and s[a:], and strip().                             *)
(***************************************************************************)
Whitespace == {" "}
Chars == {"/", "a", " "}

SliceIndex(i, n) == IF i < 0 THEN Max(i + n, 0) ELSE Min(i, n)

PySlice(s, a, b) ==
    LET lo == SliceIndex(a, Len(s))
        hi == SliceIndex(b, Len(s))
    IN  IF lo >= hi THEN <<>> ELSE SubSeq(s, lo + 1, hi)

PySliceFrom(s, a) == PySlice(s, a, Len(s))

RECURSIVE LStrip(_)
LStrip(s) == IF s # <<>> /\ Head(s) \in Whitespace THEN LStrip(Tail(s)) ELSE s

RECURSIVE RStrip(_)
RStrip(s) ==
    IF s # <<>> /\ s[Len(s)] \in Whitespace
    THEN RStrip(SubSeq(s, 1, Len(s) - 1))
    ELSE s

Strip(s) == RStrip(LStrip(s))

(***************************************************************************)
(* Payloads.  An entity is a dict with the keys type, offset, length; a    *)
(* message payload has the keys the constructors read.                     *)
(***************************************************************************)
EmptyEntity == [type |-> None, offset |-> None, length |-> None]
Entity(t, o, l) == [type |-> Some(t), offset |-> Some(o), length |-> Some(l)]

IdDict(i) == [id |-> i]
EmptyDict == IdDict(None)

InnerMessage(chat, mid) == [chat |-> chat, message_id |-> mid]

Payload(from, text, entities, chat, mid, message) ==
    [from |-> from, text |-> text, entities |-> entities, chat |-> chat,
     message_id |-> mid, message |-> message]

EmptyPayload == Payload(None, None, None, None, None, None)

Item(key, ty, v, d) == [key |-> key, ty |-> ty, v |-> v, d |-> d]
Scalar(key, ty, v) == Item(key, ty, v, EmptyPayload)
Dict(key, d) == Item(key, "dict", "", d)
UpdateId == Scalar("update_id", "int", "1")

(***************************************************************************)
(* Bot.__init__: the token is stored and formatted into the base URL; an   *)
(* absent token (None) is formatted as the text "None".                    *)
(***************************************************************************)
ApiPrefix == "https://api.telegram.org/bot"
Format(token) == Get(token, "None")

BotInit(token) == [token |-> token, base_url |-> <<ApiPrefix, Format(token)>>]

(***************************************************************************)
(* Outcome of a call: what it returned, or the exception it raised.        *)
(***************************************************************************)
Returned(kind, val) == [kind |-> kind, exc |-> "", val |-> val]
Raised(exc) == [kind |-> "raise", exc |-> exc, val |-> <<>>]
ReturnedNone == Returned("None", <<>>)

(***************************************************************************)
(* Faulty variant of UpdateChat.__init__: chat_id and message_id are read  *)
(* from the kind payload for every kind, callback_query included.          *)
(***************************************************************************)
UpdateChatInit_flat(upd, token) ==
    IF Len(upd) < 2 THEN Raised("IndexError")
    ELSE IF upd[2].ty # "dict" THEN Raised("AttributeError")
    ELSE
      LET kind     == upd[2].key
          d        == upd[2].d
          entities == Get(d.entities, <<EmptyEntity>>)
      IN  IF Len(entities) = 0 THEN Raised("IndexError")
          ELSE IF kind = "callback_query" /\ d.message = None
               THEN Raised("KeyError")
          ELSE Returned("UpdateChat",
                 [bot          |-> BotInit(token),
                  update_type  |-> kind,
                  from_id      |-> Get(d.from, EmptyDict).id,
                  text         |-> d.text,
                  message_type |-> Get(entities[1].type, "text"),
                  entities     |-> entities,
                  chat_id      |-> Get(d.chat, EmptyDict).id,
                  message_id   |-> d.message_id])

(***************************************************************************)
(* UpdateChat.__init__(update, token).  The statements are evaluated in    *)
(* order, so the first failing one decides the exception.                  *)
(***************************************************************************)
UpdateChatInit(upd, token) ==
    IF Len(upd) < 2 THEN Raised("IndexError")
    ELSE IF upd[2].ty # "dict" THEN Raised("AttributeError")
    ELSE
      LET kind     == upd[2].key
          d        == upd[2].d
          entities == Get(d.entities, <<EmptyEntity>>)
      IN  IF Len(entities) = 0 THEN Raised("IndexError")
          ELSE IF kind = "callback_query" /\ d.message = None
               THEN Raised("KeyError")
          ELSE Returned("UpdateChat",
                 [bot          |-> BotInit(token),
                  update_type  |-> kind,
                  from_id      |-> Get(d.from, EmptyDict).id,
                  text         |-> d.text,
                  message_type |-> Get(entities[1].type, "text"),
                  entities     |-> entities,
                  chat_id      |-> IF kind = "callback_query"
                                   THEN Get(d.message[1].chat, EmptyDict).id
                                   ELSE Get(d.chat, EmptyDict).id,
                  message_id   |-> IF kind = "callback_query"
                                   THEN d.message[1].message_id
                                   ELSE d.message_id])

(***************************************************************************)
(* Faulty variants of get_command: one keeps the character after the       *)
(* command (end = start + length), the other returns the pair whenever     *)
(* argument is set, also when only_start is not.                           *)
(***************************************************************************)
get_command_long(self, argument, only_start) ==
    IF self.message_type # "bot_command" THEN ReturnedNone
    ELSE IF self.entities[1].offset = None \/ self.entities[1].length = None
         THEN Raised("KeyError")
    ELSE
      LET start == self.entities[1].offset[1] + 1
          end   == start + self.entities[1].length[1]
      IN  IF only_start /\ start # 1 THEN ReturnedNone
          ELSE IF self.text = None THEN Raised("TypeError")
          ELSE IF only_start /\ argument
               THEN Returned("tuple",
                      <<PySlice(self.text[1], start, end),
                        Strip(PySliceFrom(self.text[1], end))>>)
          ELSE Returned("str", <<PySlice(self.text[1], start, end)>>)

get_command_pair(self, argument, only_start) ==
    IF self.message_type # "bot_command" THEN ReturnedNone
    ELSE IF self.entities[1].offset = None \/ self.entities[1].length = None
         THEN Raised("KeyError")
    ELSE
      LET start == self.entities[1].offset[1] + 1
          end   == start + self.entities[1].length[1] - 1
      IN  IF only_start /\ start # 1 THEN ReturnedNone
          ELSE IF self.text = None THEN Raised("TypeError")
          ELSE IF argument
               THEN Returned("tuple",
                      <<PySlice(self.text[1], start, end),
                        Strip(PySliceFrom(self.text[1], end))>>)
          ELSE Returned("str", <<PySlice(self.text[1], start, end)>>)

(***************************************************************************)
(* UpdateChat.get_command(argument, only_start).                           *)
(***************************************************************************)
get_command(self, argument, only_start) ==
    IF self.message_type # "bot_command" THEN ReturnedNone
    ELSE IF self.entities[1].offset = None \/ self.entities[1].length = None
         THEN Raised("KeyError")
    ELSE
      LET start == self.entities[1].offset[1] + 1
          end   == start + self.entities[1].length[1] - 1
      IN  IF only_start /\ start # 1 THEN ReturnedNone
          ELSE IF self.text = None THEN Raised("TypeError")
          ELSE IF only_start /\ argument
               THEN Returned("tuple",
                      <<PySlice(self.text[1], start, end),
                        Strip(PySliceFrom(self.text[1], end))>>)
          ELSE Returned("str", <<PySlice(self.text[1], start, end)>>)

(***************************************************************************)
(* Faulty variant of SentChat.__init__: chat_id is taken from the sender   *)
(* of the message instead of its chat.                                     *)
(***************************************************************************)
SentChatInit_sender(token, sent_msg) ==
    IF Len(sent_msg) < 2 THEN Raised("IndexError")
    ELSE IF sent_msg[2].ty # "dict" THEN Raised("AttributeError")
    ELSE
      LET d == sent_msg[2].d
      IN  Returned("SentChat",
            [bot         |-> BotInit(token),
             update_type |-> sent_msg[2].key,
             from_id     |-> Get(d.from, EmptyDict).id,
             chat_id     |-> Get(d.from, EmptyDict).id,
             message_id  |-> d.message_id,
             sent_text   |-> d.message_id])

(***************************************************************************)
(* SentChat.__init__(token, sent_msg): the answer of the remote API is     *)
(* read by position, like an update.                                       *)
(***************************************************************************)
SentChatInit(token, sent_msg) ==
    IF Len(sent_msg) < 2 THEN Raised("IndexError")
    ELSE IF sent_msg[2].ty # "dict" THEN Raised("AttributeError")
    ELSE
      LET d == sent_msg[2].d
      IN  Returned("SentChat",
            [bot         |-> BotInit(token),
             update_type |-> sent_msg[2].key,
             from_id     |-> Get(d.from, EmptyDict).id,
             chat_id     |-> Get(d.chat, EmptyDict).id,
             message_id  |-> d.message_id,
             sent_text   |-> d.message_id])

(***************************************************************************)
(* The requests the client builds.  json.dumps turns a structure into its  *)
(* text, modelled as the structure tagged "json".                          *)
(***************************************************************************)
JsonDumps(x) == <<"json", x>>

Url(self, path) == Append(self.base_url, path)

SetWebhookRequest(self, webhook_url) ==
    [url |-> Url(self, "/setWebhook"), data |-> [url |-> webhook_url]]

SendMessageRequest(self, chat_id, text, parse_mode, reply_to_message_id, reply_markup) ==
    [url  |-> Url(self, "/sendMessage"),
     data |-> [chat_id                     |-> chat_id,
               parse_mode                  |-> Get(parse_mode, "HTML"),
               text                        |-> text,
               disable_web_page_preview    |-> FALSE,
               reply_to_message_id         |-> reply_to_message_id,
               allow_sending_without_reply |-> FALSE,
               reply_markup                |-> JsonDumps(reply_markup),
               disable_notification        |-> FALSE,
               protect_content             |-> FALSE,
               message_thread_id           |-> None,
               entities                    |-> JsonDumps(<<>>)]]

EditMessageTextRequest(self, chat_id, message_id, text) ==
    [url  |-> Url(self, "/editMessageText"),
     data |-> [chat_id |-> chat_id, message_id |-> message_id,
               text |-> text, parse_mode |-> "HTML"]]

DeleteMessageRequest(self, chat_id, message_id) ==
    [url  |-> Url(self, "/deleteMessage"),
     data |-> [chat_id |-> chat_id, message_id |-> message_id]]

callback_button(text, callback_data) ==
    [text |-> text, callback_data |-> callback_data]

url_button(text, url) == [text |-> text, url |-> url]

(***************************************************************************)
(* Inputs: payloads delivered to the webhook, answers of the remote API,   *)
(* and the arguments of the calls.                                         *)
(***************************************************************************)
Texts == UNION {[1..n -> Chars] : n \in 0..MaxLen}
EntityTypes == {"bot_command", "mention"}
Kinds == {"message", "edited_message", "callback_query"}

ChatIds == {42, 43}
MessageIds == {5, 6}

EntityLists ==
    {<<>>, <<EmptyEntity>>}
    \cup {<<Entity(t, o, l)>> :
            t \in EntityTypes, o \in 0..MaxOffset, l \in 0..MaxEntLen}
    \cup {<<Entity("mention", 0, 1), Entity("bot_command", o, l)>> :
            o \in 0..MaxOffset, l \in 0..MaxEntLen}

OptId(ids) == {None, Some(EmptyDict)} \cup {Some(IdDict(Some(i))) : i \in ids}

\* message updates with every text and entity list, ids fixed
TextUpdates ==
    {<<UpdateId,
       Dict("message",
            Payload(Some(IdDict(Some(7))), text, ents,
                    Some(IdDict(Some(42))), Some(5), None))>> :
        text \in {None} \cup {Some(t) : t \in Texts},
        ents \in {None} \cup {Some(e) : e \in EntityLists}}

\* kind payloads with every combination of present and absent id fields
IdPayloads ==
    {Payload(from, text, None, chat, mid, message) :
        from \in OptId({7}),
        text \in {None, Some(<<"a">>)},
        chat \in OptId({42}),
        mid \in {None, Some(5)},
        message \in {None} \cup
                    {Some(InnerMessage(c, m)) :
                        c \in OptId({43}), m \in {None, Some(6)}}}

\* top-level shapes: no key, one key, two keys in either order, three keys
ShapeUpdates ==
    {<<>>, <<UpdateId>>}
    \cup UNION {{<<Dict(k, d)>>,
                 <<UpdateId, Dict(k, d)>>,
                 <<Dict(k, d), UpdateId>>,
                 <<UpdateId, Dict(k, d), Scalar("extra", "str", "x")>>} :
                k \in Kinds, d \in IdPayloads}

RawUpdates == TextUpdates \cup ShapeUpdates

CommandText == <<"/", "a", " ", "a">>
PlainText == <<"a", "a">>

CommandPayload(text, ents) ==
    Payload(Some(IdDict(Some(7))), Some(text), ents,
            Some(IdDict(Some(42))), Some(5), None)

\* the payloads a session of the client is run on
SessionUpdates ==
    {<<UpdateId,
       Dict("message",
            CommandPayload(CommandText, Some(<<Entity("bot_command", 0, 2)>>)))>>,
     <<UpdateId, Dict("message", CommandPayload(PlainText, None))>>,
     <<UpdateId,
       Dict("callback_query",
            Payload(Some(IdDict(Some(7))), None, None, None, None,
                    Some(InnerMessage(Some(IdDict(Some(43))), Some(6)))))>>,
     <<UpdateId,
       Dict("callback_query",
            Payload(Some(IdDict(Some(7))), None, None, None, None,
                    None))>>,
     <<UpdateId, Dict("message", CommandPayload(PlainText, Some(<<>>)))>>,
     <<UpdateId>>}

OkTrue == Scalar("ok", "bool", "true")
OkFalse == Scalar("ok", "bool", "false")
ErrorCode == Scalar("error_code", "int", "400")
Description == Scalar("description", "str", "Bad Request")

SuccessMessage(c, m) ==
    <<OkTrue,
      Dict("result",
           Payload(Some(IdDict(Some(7))), None, None,
                   Some(IdDict(Some(c))), Some(m), None))>>

\* the error body of the remote API, its keys in either order
FailureResponses ==
    {<<OkFalse, ErrorCode, Description>>,
     <<OkFalse, Description, ErrorCode>>}

SendResponses ==
    {SuccessMessage(c, m) : c \in ChatIds, m \in MessageIds}
    \cup FailureResponses

PlainResponses ==
    {<<OkTrue, Scalar("result", "bool", "true")>>} \cup FailureResponses

IsSuccess(r) == Len(r) >= 1 /\ r[1] = OkTrue

OutText == {<<"h", "i">>}
ParseModes == {None, Some("MarkdownV2")}
WebhookUrls == {"https://example.org/hook"}
Markups == {<<>>, <<callback_button(<<"a">>, Some("1"))>>}

(***************************************************************************)
(* State.                                                                  *)
(*   bot      the Bot client: its token and base URL                       *)
(*   update   the payload last handed to validate_update, if any           *)
(*   uc       the UpdateChat that validate_update last returned, if any    *)
(*   sent     the SentChat that send_message last returned, if any         *)
(*   ret      what the last call returned or raised                        *)
(*   posts    the number of requests.post calls made so far                *)
(*   lastPost the last request posted and the answer it got, if any        *)
(*   op       the last call and its flags                                  *)
(***************************************************************************)
Call(name) == [name |-> name, argument |-> FALSE, only_start |-> FALSE]

Tokens == {None, Some("TOKEN")}

Init ==
    /\ bot \in {BotInit(token) : token \in Tokens}
    /\ update = None
    /\ uc = None
    /\ sent = None
    /\ ret = ReturnedNone
    /\ posts = 0
    /\ lastPost = None
    /\ op = Call("Bot.__init__")

\* Faulty variant of the request: posted again when the answer is an error
Post_retry(request, response) ==
    /\ posts < MaxPosts
    /\ posts' = posts + (IF IsSuccess(response) THEN 1 ELSE 2)
    /\ lastPost' = Some([url |-> request.url, data |-> request.data,
                         response |-> response])

\* requests.post(url, json=data).json(): one request, one answer
Post(request, response) ==
    /\ posts < MaxPosts
    /\ posts' = posts + 1
    /\ lastPost' = Some([url |-> request.url, data |-> request.data,
                         response |-> response])

\* Bot.send_message: post, then wrap the answer in a SentChat
SendMessage(self, chat_id, text, parse_mode, reply_to_message_id, reply_markup, response) ==
    LET out == SentChatInit(self.token, response)
    IN  /\ Post(SendMessageRequest(self, chat_id, text, parse_mode,
                                   reply_to_message_id, reply_markup),
                response)
        /\ ret' = out
        /\ sent' = IF out.exc = "" THEN Some(out.val) ELSE sent

set_webhook ==
    \E url \in WebhookUrls, r \in PlainResponses :
        /\ Post(SetWebhookRequest(bot, url), r)
        /\ ret' = Returned("json", r)
        /\ op' = Call("Bot.set_webhook")
        /\ UNCHANGED <<bot, update, uc, sent>>

send_message ==
    \E c \in ChatIds, t \in OutText, pm \in ParseModes, r \in SendResponses :
        /\ SendMessage(bot, Some(c), t, pm, None, <<>>, r)
        /\ op' = Call("Bot.send_message")
        /\ UNCHANGED <<bot, update, uc>>

edit_message_text ==
    \E c \in ChatIds, m \in MessageIds, t \in OutText, r \in PlainResponses :
        /\ Post(EditMessageTextRequest(bot, Some(c), Some(m), t), r)
        /\ ret' = Returned("json", r)
        /\ op' = Call("Bot.edit_message_text")
        /\ UNCHANGED <<bot, update, uc, sent>>

delete_message ==
    \E c \in ChatIds, m \in MessageIds, r \in PlainResponses :
        /\ Post(DeleteMessageRequest(bot, Some(c), Some(m)), r)
        /\ ret' = Returned("json", r)
        /\ op' = Call("Bot.delete_message")
        /\ UNCHANGED <<bot, update, uc, sent>>

button_builders ==
    \E t \in OutText :
        /\ \/ /\ ret' = Returned("dict", callback_button(t, Some("1")))
              /\ op' = Call("Bot.callback_button")
           \/ /\ ret' = Returned("dict", url_button(t, Some("u")))
              /\ op' = Call("Bot.url_button")
        /\ UNCHANGED <<bot, update, uc, sent, posts, lastPost>>

\* Bot.validate_update(update): build the UpdateChat of the payload u
ValidateUpdate(u) ==
    LET out == UpdateChatInit(u, bot.token)
    IN  /\ update' = Some(u)
        /\ ret' = out
        /\ uc' = IF out.exc = "" THEN Some(out.val) ELSE uc
        /\ op' = Call("Bot.validate_update")
        /\ UNCHANGED <<bot, sent, posts, lastPost>>

validate_update == \E u \in SessionUpdates : ValidateUpdate(u)

\* validate_update on the payload that was received (held in update)
parse_update == update # None /\ ValidateUpdate(update[1])

UpdateChat_get_command ==
    \E argument \in BOOLEAN, only_start \in BOOLEAN :
        /\ uc # None
        /\ ret' = get_command(uc[1], argument, only_start)
        /\ op' = [name |-> "UpdateChat.get_command",
                  argument |-> argument, only_start |-> only_start]
        /\ UNCHANGED <<bot, update, uc, sent, posts, lastPost>>

UpdateChat_send_message ==
    \E t \in OutText, r \in SendResponses :
        /\ uc # None
        /\ SendMessage(uc[1].bot, uc[1].chat_id, t, Some("HTML"), None, <<>>, r)
        /\ op' = Call("UpdateChat.send_message")
        /\ UNCHANGED <<bot, update, uc>>

UpdateChat_send_inline_keyboard ==
    \E t \in OutText, k \in Markups, r \in SendResponses :
        /\ uc # None
        /\ SendMessage(uc[1].bot, uc[1].chat_id, t, Some("HTML"), None, k, r)
        /\ op' = Call("UpdateChat.send_inline_keyboard")
        /\ UNCHANGED <<bot, update, uc>>

UpdateChat_reply_message ==
    \E t \in OutText, r \in SendResponses :
        /\ uc # None
        /\ SendMessage(uc[1].bot, uc[1].from_id, t, Some("HTML"),
                       uc[1].message_id, <<>>, r)
        /\ op' = Call("UpdateChat.reply_message")
        /\ UNCHANGED <<bot, update, uc>>

SentChat_edit_message_text ==
    \E t \in OutText, r \in PlainResponses :
        /\ sent # None
        /\ Post(EditMessageTextRequest(sent[1].bot, sent[1].chat_id,
                                       sent[1].message_id, t), r)
        /\ ret' = Returned("json", r)
        /\ op' = Call("SentChat.edit_message_text")
        /\ UNCHANGED <<bot, update, uc, sent>>

SentChat_delete_message ==
    \E r \in PlainResponses :
        /\ sent # None
        /\ Post(DeleteMessageRequest(sent[1].bot, sent[1].chat_id,
                                     sent[1].message_id), r)
        /\ ret' = Returned("json", r)
        /\ op' = Call("SentChat.delete_message")
        /\ UNCHANGED <<bot, update, uc, sent>>

Next ==
    \/ set_webhook
    \/ send_message
    \/ edit_message_text
    \/ delete_message
    \/ button_builders
    \/ validate_update
    \/ UpdateChat_get_command
    \/ UpdateChat_send_message
    \/ UpdateChat_send_inline_keyboard
    \/ UpdateChat_reply_message
    \/ SentChat_edit_message_text
    \/ SentChat_delete_message

Spec == Init /\ [][Next]_vars

\* the payload parser and the command extractor alone, on every payload
NextParse ==
    \/ parse_update
    \/ UpdateChat_get_command

\* a client that has received one payload, any of RawUpdates
InitParse ==
    /\ bot \in {BotInit(token) : token \in Tokens}
    /\ update \in {Some(u) : u \in RawUpdates}
    /\ uc = None
    /\ sent = None
    /\ ret = ReturnedNone
    /\ posts = 0
    /\ lastPost = None
    /\ op = Call("Bot.__init__")

SpecParse == InitParse /\ [][NextParse]_vars

(***************************************************************************)
(* Vocabulary of the properties.                                           *)
(***************************************************************************)
Validated == op.name = "Bot.validate_update"
GotCommand == op.name = "UpdateChat.get_command"

\* the kind payload of the received update, when it has one
HasKindPayload == update # None /\ Len(update[1]) >= 2 /\ update[1][2].ty = "dict"
KindPayload == update[1][2].d

\* the text between the first and the last character that is not whitespace
Trimmed(s) ==
    LET idx == {i \in 1..Len(s) : s[i] \notin Whitespace}
    IN  IF idx = {} THEN <<>>
        ELSE SubSeq(s, CHOOSE i \in idx : \A j \in idx : i <= j,
                       CHOOSE i \in idx : \A j \in idx : i >= j)

\* text is "/" name whitespace rest, the name having n characters
SlashNameArg(text, n) ==
    /\ n >= 1
    /\ Len(text) >= n + 2
    /\ text[1] = "/"
    /\ \A i \in 2..(n + 1) : text[i] \notin Whitespace
    /\ text[n + 2] \in Whitespace

\* C1: for a message whose text is "/name arg" and whose first entity is the
\* bot_command at offset 0 spanning "/name", get_command(argument=True,
\* only_start=True) returns the pair (name, arg), arg being the rest of the
\* text without its leading and trailing whitespace
C1_CommandWithArgument ==
    \A n \in 1..(MaxLen + 1) :
        ( /\ GotCommand /\ op.argument /\ op.only_start
          /\ HasKindPayload
          /\ update[1][2].key = "message"
          /\ KindPayload.text # None
          /\ SlashNameArg(KindPayload.text[1], n)
          /\ KindPayload.entities # None
          /\ Len(KindPayload.entities[1]) >= 1
          /\ KindPayload.entities[1][1] = Entity("bot_command", 0, n + 1) )
        => ret = Returned("tuple",
                    <<SubSeq(KindPayload.text[1], 2, n + 1),
                      Trimmed(SubSeq(KindPayload.text[1], n + 2,
                                     Len(KindPayload.text[1])))>>)

\* the argument has whitespace on both sides and comes back without it
C1_Witness ==
    /\ GotCommand /\ op.argument /\ op.only_start
    /\ HasKindPayload
    /\ KindPayload.text = Some(<<"/", "a", " ", "a", " ">>)
    /\ KindPayload.entities = Some(<<Entity("bot_command", 0, 2)>>)
    /\ ret = Returned("tuple", <<<<"a">>, <<"a">>>>)

\* C2: for an update whose kind payload has no entities field, the
\* construction of the UpdateChat succeeds, its message_type is "text", and
\* get_command returns None whatever the flags
C2_NoEntities ==
    (HasKindPayload /\ KindPayload.entities = None /\ (Validated \/ GotCommand))
    => /\ ret.kind # "raise"
       /\ uc # None
       /\ uc[1].message_type = "text"
       /\ GotCommand => ret = ReturnedNone

\* the characters of text at the 0-based positions a .. b-1 that exist
Span(text, a, b) ==
    LET n == Max(0, Min(b, Len(text)) - a)
    IN  [i \in 1..n |-> text[a + i]]

IdOf(f) == IF f = None THEN None ELSE f[1].id

\* C4: the UpdateChat of a callback_query payload takes chat_id and message_id
\* from the nested message, that of any other kind from the kind payload, and
\* update_type is the name of the second top-level key
C4_IdsFromKind ==
    (Validated /\ ret.kind # "raise")
    => /\ HasKindPayload
       /\ uc # None
       /\ uc[1].update_type = update[1][2].key
       /\ IF update[1][2].key = "callback_query"
          THEN /\ KindPayload.message # None
               /\ uc[1].chat_id = IdOf(KindPayload.message[1].chat)
               /\ uc[1].message_id = KindPayload.message[1].message_id
          ELSE /\ uc[1].chat_id = IdOf(KindPayload.chat)
               /\ uc[1].message_id = KindPayload.message_id

\* a callback_query that carries other ids at its top level than in its message
C4_Witness ==
    /\ Validated /\ ret.kind # "raise"
    /\ update[1][2].key = "callback_query"
    /\ KindPayload.chat = Some(IdDict(Some(42)))
    /\ KindPayload.message_id = Some(5)
    /\ uc[1].chat_id = Some(43)
    /\ uc[1].message_id = Some(6)

\* C7: the construction of an UpdateChat from a payload with fewer than two
\* top-level keys fails with the error kind MalformedPayload
C7_MalformedPayload ==
    (Validated /\ Len(update[1]) < 2) => ret = Raised("MalformedPayload")

\* C9: whatever the entities field of the kind payload is (absent, non-empty
\* or empty), the first element of the entity list can be read: no index
\* error in the construction or in get_command
C9_FirstEntityIndexable ==
    (HasKindPayload /\ (Validated \/ GotCommand)) => ret.exc # "IndexError"

SendCalls ==
    {"Bot.send_message", "UpdateChat.send_message",
     "UpdateChat.send_inline_keyboard", "UpdateChat.reply_message"}

HandleCalls == {"SentChat.edit_message_text", "SentChat.delete_message"}

NetworkCalls ==
    SendCalls \cup HandleCalls
    \cup {"Bot.set_webhook", "Bot.edit_message_text", "Bot.delete_message"}

LocalCalls ==
    {"Bot.callback_button", "Bot.url_button", "Bot.validate_update",
     "UpdateChat.get_command"}

\* C5: when the remote API answers a send_message with a non-success body,
\* send_message raises nothing and the caller gets the answer
C5_FailurePassedThrough ==
    (op.name \in SendCalls /\ ~IsSuccess(lastPost[1].response))
    => ret.kind # "raise"

\* C6: the SentChat returned for the answer {ok, result: {message_id: m,
\* chat: {id: c}}} stores chat_id = c and message_id = m, and every edit or
\* delete on the handle posts exactly that pair and leaves the handle as it is
C6_HandleScoped ==
    [][ /\ (op'.name \in SendCalls /\ IsSuccess(lastPost'[1].response))
           => /\ sent' # None
              /\ ret' = Returned("SentChat", sent'[1])
              /\ sent'[1].chat_id = lastPost'[1].response[2].d.chat[1].id
              /\ sent'[1].message_id = lastPost'[1].response[2].d.message_id
        /\ (op'.name \in HandleCalls)
           => /\ sent # None
              /\ sent' = sent
              /\ lastPost'[1].data.chat_id = sent[1].chat_id
              /\ lastPost'[1].data.message_id = sent[1].message_id
      ]_vars

\* the third request of a session is a delete scoped to the message sent
C6_Witness ==
    /\ op.name = "SentChat.delete_message"
    /\ posts = 3
    /\ sent # None
    /\ sent[1].chat_id = Some(43) /\ sent[1].message_id = Some(6)
    /\ lastPost[1].data.chat_id = Some(43)
    /\ lastPost[1].data.message_id = Some(6)

\* C8: a Bot built without a token fails with MissingCredential and never
\* makes a network call
C8_MissingCredential ==
    bot.token = None
    => /\ posts = 0
       /\ op.name = "Bot.__init__" => ret = Raised("MissingCredential")

\* C10: every set_webhook, send_message, edit_message_text and delete_message
\* call, wrappers included, makes exactly one POST; the button builders,
\* validate_update and get_command make none; and the token and the base URL
\* of the client and of its wrappers stay those of the construction
C10_OnePostPerCall ==
    [][ /\ op'.name \in NetworkCalls
           => posts' = posts + 1 /\ lastPost' # None
        /\ op'.name \in LocalCalls
           => posts' = posts /\ lastPost' = lastPost
        /\ op'.name \in NetworkCalls \cup LocalCalls
        /\ bot' = bot
        /\ uc' # None => uc'[1].bot = bot
        /\ sent' # None => sent'[1].bot = bot
      ]_vars

\* a session that has both wrappers and has posted through them
C10_Witness ==
    /\ posts >= 2
    /\ uc # None /\ sent # None
    /\ op.name = "UpdateChat.get_command"
    /\ lastPost[1].url = <<ApiPrefix, "TOKEN", "/sendMessage">>

====
